---------------------------- MODULE Spec2Model ----------------------------
(***************************************************************************)
(* Heat diffusion between the mantle and a vertically subducting slab      *)
(* (diffusion.py).  The script is one bounded loop; each iteration sinks   *)
(* the slab in the previous-state grid u0, runs diffuser(u0, u) and, at    *)
(* the time steps listed in mfig, hands a copy of u to the plot.           *)
(*                                                                         *)
(* Arrays are modelled as buffers in a heap addressed by references, so    *)
(* that copying (u.copy()) and aliasing are different things.  A grid is   *)
(* a function g[j][i], j the first (depth) axis, i the second axis.        *)
(*                                                                         *)
(* Temperatures are exact fixed-point numbers: a stored integer t stands   *)
(* for t / Unit degrees, Unit == KdtDen^nsteps, so that the nsteps         *)
(* successive multiplications by K*dt = 1/4 are all exact.  (In the        *)
(* script K*dt evaluates to exactly 0.25 in double precision.)             *)
(***************************************************************************)
EXTENDS Integers, Sequences, FiniteSets, TLC

\* Side of the square domain in grid cells (100 in the script).
GridSide == 8

\* domain size [km]: w = h = 100.
w == GridSide
h == w

\* grid resolution: dx = dy = 1
dx == 1
dy == 1

\* slab and mantle temperatures
Tslab == 0
Tmantle == 1300

\* nx, ny = int(w/dx), int(h/dy)
nx == w \div dx
ny == h \div dy

\* dx2, dy2 = dx*dx, dy*dy
dx2 == dx * dx
dy2 == dy * dy

\* K * dt with dt = dx2*dy2 / (2*K*(dx2+dy2)): K cancels, leaving the
\* fraction KdtNum / KdtDen (= 1/4).
KdtNum == dx2 * dy2
KdtDen == 2 * (dx2 + dy2)

\* nsteps = 100: as many time steps as the grid has rows.
nsteps == nx

\* mfig = [0, 10, 50, 99]: the first step, an early one, the middle one and
\* the last one.
mfig == {0, 1, nsteps \div 2, nsteps - 1}

\* The slab's columns are the slice 25:75 of 100, [SlabLo, SlabHi).
SlabLo == nx \div 4
SlabHi == (3 * nx) \div 4

\* Fixed-point scale of the stored temperatures.
Unit == KdtDen ^ nsteps

Rows == 0 .. (nx - 1)
Cols == 0 .. (ny - 1)
AllCells == Rows \X Cols

\* The 25:75 slice of the second axis.
SlabCols == {i \in Cols : SlabLo <= i /\ i < SlabHi}

\* What the memory returned by np.empty may hold (degrees): values below the
\* slab temperature, the mantle temperature and a value above it.
Garbage == {-1950, -975, Tmantle, 2 * Tmantle}

\* u = np.empty((nx, ny)): arbitrary contents.  The model draws them per
\* column for the columns SlabLo..SlabHi and uses one value everywhere else.
EmptyGrids ==
  { [j \in Rows |-> [i \in Cols |->
        IF SlabLo <= i /\ i <= SlabHi THEN f[i] * Unit ELSE g * Unit]] :
      f \in [SlabLo .. SlabHi -> Garbage], g \in Garbage }

\* u0 = Tmantle * np.ones((nx, ny)); u0[1,25:75] = Tslab
InitialGrid ==
  [j \in Rows |-> [i \in Cols |->
      IF j = 1 /\ i \in SlabCols THEN Tslab * Unit ELSE Tmantle * Unit]]

VARIABLES
  heap,      \* the array buffers: reference -> grid
  u0,        \* reference of the previous-state grid
  u,         \* reference of the next-state grid
  written,   \* the cells of the buffer u that have been assigned
  m,         \* loop variable of the main loop
  pc,        \* position in the loop body
  fignum,    \* number of subplots made
  images     \* the subplots: title (m*10, in ka) and reference of the image

vars == <<heap, u0, u, written, m, pc, fignum, images>>

\* The grids the two names are bound to.
U0 == heap[u0]
U == heap[u]

--------------------------------------------------------------------------
\* Buffers

Min(a, b) == IF a < b THEN a ELSE b

\* A reference no buffer of hp has.
NewRef(hp) == CHOOSE n \in 1 .. (Cardinality(DOMAIN hp) + 1) : n \notin DOMAIN hp

\* Variant of CopyRef: the name is bound to the same buffer, as `b = a` does.
AliasRef(hp, r) == r

\* The reference a.copy() evaluates to: a new buffer.
CopyRef(hp, r) == NewRef(hp)

\* hp after a.copy() of the buffer r: the new buffer holds r's contents.
CopyHeap(hp, r) == (CopyRef(hp, r) :> hp[r]) @@ hp

\* The buffers still referenced by a name or by a subplot.
Live(hp, refs) == [r \in (DOMAIN hp) \cap refs |-> hp[r]]

ImageRefs(imgs) == {imgs[k].image : k \in 1 .. Len(imgs)}

--------------------------------------------------------------------------
\* The slab sinking (main loop, lines 99-100)

\* Variant of ShiftDown: the rows are copied one at a time from the top, each
\* reading the row just stored, so row 1 is smeared down through rows 2..m.
SmearDown(g, step) ==
  [j \in Rows |-> [i \in Cols |->
      IF 2 <= j /\ j < Min(step + 1, nx) /\ i \in SlabCols
      THEN g[1][i] ELSE g[j][i]]]

\* Variant of ShiftDown: the shift starts with the first step,
\* u0[2:m+3] = u0[1:m+2], so that step 0 already moves row 1 into row 2.
ShiftDownEarly(g, step) ==
  [j \in Rows |-> [i \in Cols |->
      IF 2 <= j /\ j < Min(step + 3, nx) /\ i \in SlabCols
      THEN g[j - 1][i] ELSE g[j][i]]]

\* u0[2:m+1,25:75] = u0[1:m,25:75]: the right-hand side is read as a whole
\* before the rows 2..m are stored.
ShiftDown(g, step) ==
  [j \in Rows |-> [i \in Cols |->
      IF 2 <= j /\ j < Min(step + 1, nx) /\ i \in SlabCols
      THEN g[j - 1][i] ELSE g[j][i]]]

\* u0[1,25:75] = Tslab
ResetTop(g) ==
  [j \in Rows |-> [i \in Cols |->
      IF j = 1 /\ i \in SlabCols THEN Tslab * Unit ELSE g[j][i]]]

--------------------------------------------------------------------------
\* diffuser(u0, u)

\* The cells of the slices [1:-1, 1:-1].
Interior(j, i) == 1 <= j /\ j <= nx - 2 /\ 1 <= i /\ i <= ny - 2

\* The discretized diffusion equation for one cell.
Stencil(g0, j, i) ==
  g0[j][i] + (KdtNum *
       ( (g0[j + 1][i] - 2 * g0[j][i] + g0[j - 1][i]) \div dx2
       + (g0[j][i + 1] - 2 * g0[j][i] + g0[j][i - 1]) \div dy2 )) \div KdtDen

\* Variant of Pinned: the bottom row (j == ny-1) is left out.
PinnedNoBottom(j, i) ==
  \/ i = 0 \/ i = nx - 1
  \/ (j = 0 /\ i < SlabLo) \/ (j = 0 /\ i > SlabHi)

\* The boundary condition: the cells u[j,i] the double loop sets to Tmantle.
Pinned(j, i) ==
  \/ i = 0 \/ i = nx - 1
  \/ j = ny - 1
  \/ (j = 0 /\ i < SlabLo) \/ (j = 0 /\ i > SlabHi)

\* The cells of u that diffuser assigns.
Assigned == {c \in AllCells : Interior(c[1], c[2]) \/ Pinned(c[1], c[2])}

\* The contents of u when diffuser returns; g0 and g are the contents of u0
\* and u when it is called.
diffuser(g0, g) ==
  [j \in Rows |-> [i \in Cols |->
      IF Pinned(j, i) THEN Tmantle * Unit
      ELSE IF Interior(j, i) THEN Stencil(g0, j, i)
      ELSE g[j][i]]]

--------------------------------------------------------------------------
\* The program

Init ==
  /\ \E e \in EmptyGrids : heap = (1 :> InitialGrid) @@ (2 :> e)
  /\ u0 = 1
  /\ u = 2
  /\ written = {}
  /\ m = 0
  /\ pc = "sink"
  /\ fignum = 0
  /\ images = << >>

\* define the slab sinking
Sink ==
  /\ pc = "sink"
  /\ heap' = [heap EXCEPT ![u0] = ResetTop(ShiftDown(heap[u0], m))]
  /\ pc' = "diffuse"
  /\ UNCHANGED <<u0, u, written, m, fignum, images>>

\* u0, u = diffuser(u0, u): u is assigned in place, u0 is rebound to a copy
\* of it and the buffer u0 named before is dropped.
Diffuse ==
  /\ pc = "diffuse"
  /\ LET h1 == [heap EXCEPT ![u] = diffuser(heap[u0], heap[u])]
         r == CopyRef(h1, u)
     IN /\ u0' = r
        /\ heap' = Live(CopyHeap(h1, u), {r, u} \cup ImageRefs(images))
  /\ written' = written \cup Assigned
  /\ pc' = "figure"
  /\ UNCHANGED <<u, m, fignum, images>>

\* Variant of Title: the step index itself, not scaled.
TitleUnscaled(s) == s

\* The title of the subplot made at step s: str(m*10) + ' ka'.
Title(s) == s * 10

\* End of the loop body: the next m of range(nsteps), or the end of the loop.
NextStep ==
  /\ m' = m + 1
  /\ pc' = IF m + 1 < nsteps THEN "sink" ELSE "done"

\* if m in mfig: a subplot showing u.copy()
Figure ==
  /\ pc = "figure"
  /\ m \in mfig
  /\ fignum' = fignum + 1
  /\ heap' = CopyHeap(heap, u)
  /\ images' = Append(images, [title |-> Title(m), image |-> CopyRef(heap, u)])
  /\ NextStep
  /\ UNCHANGED <<u0, u, written>>

\* m not in mfig
NoFigure ==
  /\ pc = "figure"
  /\ m \notin mfig
  /\ NextStep
  /\ UNCHANGED <<heap, u0, u, written, fignum, images>>

Next == Sink \/ Diffuse \/ Figure \/ NoFigure

Spec == Init /\ [][Next]_vars

--------------------------------------------------------------------------
\* Properties

TslabU == Tslab * Unit
TmantleU == Tmantle * Unit

\* A step (sink, then diffuse) has just been completed.
StepDone == pc = "figure" \/ (pc \in {"sink", "done"} /\ m >= 1)

\* Exactly one step, the step of index 0, has been completed.
OneStepDone == (pc = "figure" /\ m = 0) \/ (pc = "sink" /\ m = 1)

\* The cells of the leftmost column, the rightmost column and the bottom row.
EdgeCells == {c \in AllCells : c[2] = 0 \/ c[2] = ny - 1 \/ c[1] = nx - 1}

\* C1. Boundary invariant: after every step, every cell of the leftmost
\* column, the rightmost column and the bottom row of the next-state grid
\* and of the previous-state grid copied from it equals Tmantle.
C1_BoundaryInvariant ==
  StepDone => \A c \in EdgeCells :
                 U[c[1]][c[2]] = TmantleU /\ U0[c[1]][c[2]] = TmantleU

\* The last step is done, and the cell above the bottom row in the first slab
\* column has cooled: the bottom row is Tmantle because it is pinned.
C1_Witness ==
  /\ pc = "figure" /\ m = nsteps - 1
  /\ U[nx - 2][SlabLo] < TmantleU
  /\ \A c \in EdgeCells : U[c[1]][c[2]] = TmantleU

\* C2. Top-row invariant: after every step, every cell of row 0 whose column
\* lies outside the slab's columns SlabLo..SlabHi-1 equals Tmantle, the
\* column SlabHi included.
C2_TopRowInvariant ==
  StepDone => \A i \in Cols \ SlabCols : U[0][i] = TmantleU

\* C3. Energy bound: after every step every cell of the grid, top row
\* included, lies within [Tslab, Tmantle].
C3_EnergyBound ==
  StepDone => \A c \in AllCells :
                 TslabU <= U[c[1]][c[2]] /\ U[c[1]][c[2]] <= TmantleU

\* C4 as claimed. After exactly one step from the initial configuration,
\* every cell of row 2 in the slab columns equals Tslab.
C4_RowTwoIsTslab ==
  OneStepDone => \A i \in SlabCols : U[2][i] = TslabU

\* C4 as amended. Step 0 shifts nothing: when its diffuse starts, row 1 of
\* the slab columns is Tslab and row 2 is still Tmantle; after that one step
\* every cell of row 2 in the slab columns is (Tslab + 3*Tmantle)/4.
C4_RowTwoAfterOneStep ==
  /\ (pc = "diffuse" /\ m = 0) =>
        \A i \in SlabCols : U0[1][i] = TslabU /\ U0[2][i] = TmantleU
  /\ OneStepDone =>
        \A i \in SlabCols : 4 * U[2][i] = (Tslab + 3 * Tmantle) * Unit

\* One step is done and row 2 of the slab columns is strictly between the
\* slab and the mantle temperature.
C4_Witness ==
  /\ OneStepDone
  /\ \A i \in SlabCols : TslabU < U[2][i] /\ U[2][i] < TmantleU

\* The number of rows whose cells in the slab columns are all at Tslab.
SlabRowCount(g) ==
  Cardinality({j \in Rows : \A i \in SlabCols : g[j][i] = TslabU})

\* C5. Slab growth: from the grid after one step to the grid after the next,
\* the number of rows at Tslab in the slab columns never decreases and
\* increases by at most one.
C5_SlabGrowth ==
  [][(pc = "diffuse" /\ m >= 1) =>
        /\ SlabRowCount(heap[u]) <= SlabRowCount(heap'[u'])
        /\ SlabRowCount(heap'[u']) <= SlabRowCount(heap[u]) + 1]_vars

\* The steps of mfig that have been completed and have had their figure.
Requested == {s \in mfig : s < m}

\* C6. Snapshot output contract: the loop runs nsteps iterations and stops;
\* each requested step below nsteps gets exactly one snapshot and no other
\* step gets one; a snapshot is made right after the step's diffuse, of the
\* grid diffuse left, with the title m*10; snapshots come in step order.
C6_SnapshotContract ==
  /\ [](/\ m <= nsteps
        /\ (pc = "done") = (m = nsteps)
        /\ (pc = "done" => Requested = mfig)
        /\ Len(images) = Cardinality(Requested)
        /\ fignum = Len(images)
        /\ {images[k].title : k \in 1 .. Len(images)} = {10 * s : s \in Requested}
        /\ \A k \in 1 .. Len(images) : \A l \in 1 .. Len(images) :
              k < l => images[k].title < images[l].title
        /\ (pc = "figure" => U0 = U))
  /\ [][images' # images =>
          /\ pc = "figure" /\ m \in mfig /\ m' = m + 1
          /\ Len(images') = Len(images) + 1
          /\ SubSeq(images', 1, Len(images)) = images
          /\ images'[Len(images')].title = 10 * m
          /\ heap'[images'[Len(images')].image] = heap[u]]_vars

\* The run is over and it made one figure for each step of mfig.
C6_Witness ==
  /\ pc = "done"
  /\ Len(images) = Cardinality(mfig)
  /\ images[Len(images)].title = 10 * (nsteps - 1)

\* C7. Advect is a simultaneous one-row shift: at step m every row r in
\* 2..m of the slab columns takes the value row r-1 held just before this
\* advect, row 1 is then Tslab, and for m < 2 the shift changes no cell.
C7_SimultaneousShift ==
  [][pc = "sink" =>
        /\ \A j \in Rows : \A i \in SlabCols :
              (2 <= j /\ j <= m) => heap'[u0'][j][i] = heap[u0][j - 1][i]
        /\ \A i \in SlabCols : heap'[u0'][1][i] = TslabU
        /\ m < 2 => \A c \in AllCells :
              ~(c[1] = 1 /\ c[2] \in SlabCols) =>
                   heap'[u0'][c[1]][c[2]] = heap[u0][c[1]][c[2]]]_vars

\* A sink of a step m >= 3 has acted, and rows 2 and 3 of a slab column now
\* hold different values, neither of them the reset value of row 1.
C7_Witness ==
  /\ pc = "diffuse" /\ m >= 3
  /\ \E i \in SlabCols :
        U0[3][i] # U0[2][i] /\ U0[2][i] # TslabU /\ U0[3][i] # TslabU

\* C8. Advect writes only interior cells: in every step the leftmost column,
\* the rightmost column and the bottom row of the previous-state grid are
\* still Tmantle at the moment diffuse reads it.
C8_AdvectInteriorOnly ==
  pc = "diffuse" => \A c \in EdgeCells : U0[c[1]][c[2]] = TmantleU

\* C9. The next-state grid is fully defined from the first step on: when
\* diffuse returns, every cell of the next-state grid has been assigned.
C9_FullyDefined ==
  StepDone => written = AllCells

\* C10. Buffer isolation: the two grids and the snapshots are separate
\* buffers; after diffuse the previous-state grid equals the next-state grid
\* cell by cell; diffuse computes every interior cell from the previous-state
\* values it started with; advect changes neither the next-state grid nor a
\* snapshot; making a snapshot changes neither grid; and no step changes a
\* snapshot already made.
C10_BufferIsolation ==
  /\ [](/\ u0 # u
        /\ \A k \in 1 .. Len(images) :
              /\ images[k].image \notin {u0, u}
              /\ \A l \in 1 .. Len(images) :
                    k # l => images[k].image # images[l].image
        /\ (pc = "figure" => U0 = U))
  /\ [][/\ \A k \in 1 .. Len(images) :
              heap'[images[k].image] = heap[images[k].image]
        /\ pc = "sink" => heap'[u'] = heap[u]
        /\ pc = "figure" => heap'[u'] = heap[u] /\ heap'[u0'] = heap[u0]
        /\ pc = "diffuse" => \A c \in AllCells :
              Interior(c[1], c[2]) =>
                 KdtDen * heap'[u'][c[1]][c[2]] =
                      heap[u0][c[1] + 1][c[2]] + heap[u0][c[1] - 1][c[2]]
                    + heap[u0][c[1]][c[2] + 1] + heap[u0][c[1]][c[2] - 1]]_vars

\* A snapshot exists and the sink of a later step has made the previous-state
\* grid differ from the next-state grid and from that snapshot.
C10_Witness ==
  /\ pc = "diffuse" /\ m >= 1 /\ Len(images) >= 1
  /\ U0 # U
  /\ heap[images[1].image] # U0

==========================================================================
